---- MODULE Spec2Model ----
(***************************************************************************)
(* Board client of BlitzQuest (game/static/js/game_board.js) and the older *)
(* dice panel client (game/static/js/game_state.js), modelled as state     *)
(* machines.  The client polls GET /games/{id}/state/, renders every       *)
(* snapshot it receives and posts the player's actions; responses travel   *)
(* over a network that may delay, reorder or lose them.  The server is not *)
(* part of the client sources: its transitions follow spec.md sections 3-5.*)
(***************************************************************************)
EXTENDS Bags, FiniteSets, Integers, Naturals, Sequences, TLC

\* ------------------------------------------------------------------------
\* Bounds of the model
\* ------------------------------------------------------------------------
MaxQ == 2
MaxInFlight == 2
MaxFail == 1
MaxMoves == 2

\* ------------------------------------------------------------------------
\* Program constants
\* ------------------------------------------------------------------------
QuestionSeconds == 5

\* players payload: entries, distinct player ids, board positions, order rolls
MaxPlayers == 2

MaxPlayerId == 2

MaxPosition == 1

MaxRoll == 2

VARIABLES
  srv,       \* the game record on the server
  net,       \* bag of responses on their way to the client
  c,         \* the board page: window globals, module variables, DOM
  fails,     \* requests that failed so far
  last,      \* history: the handler that ran last
  rendered,  \* history: the snapshot a handler applied to the page last
  sent,      \* history: answer_question requests sent for the question shown last
             \* and not reported back as failed
  gs,        \* the page driven by game_state.js: dice panel and its poller
  duelView,  \* the duel payload rendered last and the content of #dBody
  playersView, \* the players payload rendered last and what each panel shows
  lobby,     \* the lobby page driven by game_lobby.js
  chat,      \* the chat panel: input, send button, listeners, poller
  dice,      \* the faces of the board die and the order die, and #dice-text
  cd,        \* the card-duel poller and the modals it drives
  act,       \* window.BQ_ACTIVITY, the activity log and the state it diffs
  hand,      \* the card-duel hand: #cd-hand, its processing flag, #cd-feedback
  shop       \* the shop modal: offers, sell list, #shopFeedback, window.GAME_STATE

\* the pages of the scripts other than the board, dice, duel and player panels
pages == <<lobby, chat, dice, cd, act, hand, shop>>

vars == <<srv, net, c, fails, last, rendered, sent, gs, duelView, playersView,
          pages>>

\* what the handlers of game_board.js leave alone
others == <<gs, duelView, playersView, pages>>

\* ------------------------------------------------------------------------
\* Snapshots (the JSON the state endpoint and the action endpoints return)
\* ------------------------------------------------------------------------
NoQuestion == [id |-> 0, prompt |-> 0]

Question(n) == [id |-> n, prompt |-> n]

NoState ==
  [status |-> "null", mode |-> "board", pending_question |-> NoQuestion,
   pending_shop |-> FALSE, pending_duel |-> FALSE, pending_gun |-> FALSE,
   draft_active |-> FALSE, your_turn |-> FALSE, any_alive |-> FALSE,
   order_pending |-> FALSE, has_winner |-> FALSE, pick |-> "none"]

\* per-viewer projection of the server's game record (spec.md 4.3)
Snapshot(s) ==
  [status |-> s.status, mode |-> s.mode,
   pending_question |-> IF s.pend = "question" THEN Question(s.qid) ELSE NoQuestion,
   pending_shop |-> (s.pend = "shop"),
   pending_duel |-> (s.pend = "duel"),
   pending_gun |-> (s.pend = "gun"),
   draft_active |-> (s.pend = "draft"),
   your_turn |-> s.yourTurn,
   any_alive |-> (s.status # "finished"),
   order_pending |-> s.orderPending,
   has_winner |-> s.hasWinner,
   pick |-> s.pick]

\* ------------------------------------------------------------------------
\* Server transitions (spec.md 4.1, 4.2)
\* ------------------------------------------------------------------------
RollAccepted(s) == s.status = "active" /\ s.yourTurn /\ s.pend = "none" /\ s.mode = "board"

Moved(s) == [s EXCEPT !.moves = @ + 1]

SrvAfterRoll(s) ==
  IF s.moves >= MaxMoves
    THEN {[s EXCEPT !.status = "finished", !.hasWinner = TRUE, !.yourTurn = FALSE]}
    ELSE {Moved([s EXCEPT !.yourTurn = FALSE])}
         \cup {Moved([s EXCEPT !.pend = k]) : k \in s.tiles \ {"question"}}
         \cup (IF "question" \in s.tiles /\ s.qid < MaxQ
                 THEN {Moved([s EXCEPT !.pend = "question", !.qid = s.qid + 1])}
                 ELSE {})
         \cup {[s EXCEPT !.status = "finished", !.hasWinner = TRUE, !.yourTurn = FALSE]}

OrderRollAccepted(s) == s.status = "ordering" /\ s.orderPending

SrvAfterOrderRoll(s) == [s EXCEPT !.orderPending = FALSE]

ResolveAccepted(s, kind) == s.status = "active" /\ s.pend = kind

SrvAfterResolve(s) == [s EXCEPT !.pend = "none", !.yourTurn = FALSE]

\* moves of the other players and of the game itself
SrvOtherMoves(s) ==
  IF s.mode = "card_duel"
    THEN (IF s.status = "active"
            THEN {[s EXCEPT !.status = "finished", !.hasWinner = h] : h \in BOOLEAN}
                 \cup (IF s.pick = "open" THEN {[s EXCEPT !.pick = "done"]} ELSE {})
            ELSE {})
  ELSE IF s.status = "ordering" /\ ~s.orderPending
    THEN {[s EXCEPT !.status = "drafting", !.pend = "draft"]}
  ELSE IF s.status = "active" /\ s.pend = "duel"
    THEN {[s EXCEPT !.pend = "none", !.yourTurn = FALSE]}
  ELSE IF s.status = "active" /\ s.pend = "none" /\ ~s.yourTurn
    THEN (IF s.moves >= MaxMoves
            THEN {}
            ELSE {Moved([s EXCEPT !.yourTurn = TRUE])}
                 \cup (IF "duel" \in s.tiles THEN {Moved([s EXCEPT !.pend = "duel"])} ELSE {}))
         \cup {[s EXCEPT !.status = "finished", !.hasWinner = TRUE]}
  ELSE {}

SrvAfterDraftPick(s) == [s EXCEPT !.status = "active", !.pend = "none", !.yourTurn = TRUE]

\* ------------------------------------------------------------------------
\* Question modal and its countdown
\* ------------------------------------------------------------------------
NullKey == <<>>

getQuestionKey(q) ==
  IF q = NoQuestion THEN NullKey
  ELSE IF q.id # 0 THEN <<"id", q.id>>
  ELSE <<"p", q.prompt>>

stopQuestionTimer(cl) == [cl EXCEPT !.qTicking = FALSE]

startQuestionTimer(cl, seconds) ==
  [cl EXCEPT !.qTicking = TRUE, !.qRemaining = seconds]

showQuestionModal(cl, q) ==
  LET c1 == [cl EXCEPT !.qShown = q.id, !.qEnabled = TRUE,
                       !.questionModal = TRUE]
      qKey == getQuestionKey(q)
      isSameQuestion == cl.ACTIVE_QUESTION_KEY # NullKey /\ qKey # NullKey
                        /\ cl.ACTIVE_QUESTION_KEY = qKey
  IN IF ~isSameQuestion
       THEN startQuestionTimer(stopQuestionTimer([c1 EXCEPT !.ACTIVE_QUESTION_KEY = qKey]),
                               QuestionSeconds)
       ELSE c1

hideQuestionModal(cl) ==
  [stopQuestionTimer(cl) EXCEPT !.ACTIVE_QUESTION_KEY = NullKey, !.questionModal = FALSE]

renderQuestionUI(cl, s) ==
  IF s.pending_question # NoQuestion
    THEN showQuestionModal(cl, s.pending_question)
    ELSE hideQuestionModal(cl)

\* ------------------------------------------------------------------------
\* Other modals
\* ------------------------------------------------------------------------
showShopModal(cl) == [cl EXCEPT !.shopModal = TRUE]

hideShopModal(cl) == [cl EXCEPT !.shopModal = FALSE]

renderGunUI(cl, s) == [cl EXCEPT !.gunModal = s.pending_gun]

setDraftModalVisible(cl, visible) == [cl EXCEPT !.draftModal = visible]

renderDraftUI(cl, s) == setDraftModalVisible(cl, s.draft_active)

renderOrderModal(cl, s) == [cl EXCEPT !.orderRollDisabled = ~s.order_pending]

showOrderModal(cl) == [cl EXCEPT !.orderModal = TRUE]

hideOrderModal(cl) == [cl EXCEPT !.orderModal = FALSE]

showDuelModal(cl) == [cl EXCEPT !.duelModal = TRUE]

hideDuelModal(cl) == [cl EXCEPT !.duelModal = FALSE]

bqOpenFinishModal(cl) == [cl EXCEPT !.finishModal = TRUE]

applyGameStateUpdate(cl, s) ==
  IF s = NoState THEN cl
  ELSE LET c1 == [cl EXCEPT !.GAME_STATE = s]
       IN IF s.pending_shop THEN showShopModal(c1) ELSE hideShopModal(c1)

\* ------------------------------------------------------------------------
\* Dice panel
\* ------------------------------------------------------------------------
updateDiceUI(cl, s) ==
  IF s.status = "ordering"
    THEN [cl EXCEPT !.rollDisabled = ~s.order_pending,
                    !.diceText = IF s.order_pending
                                   THEN "Roll to determine turn order."
                                   ELSE "Waiting for other players to roll..."]
  ELSE IF s.status # "active"
    THEN [cl EXCEPT !.rollDisabled = TRUE]
  ELSE [cl EXCEPT !.rollDisabled = (~s.your_turn \/ ~s.any_alive),
                  !.diceText = IF ~cl.hasValue
                                 THEN (IF s.your_turn
                                         THEN "It is your turn. Roll the dice."
                                         ELSE "Waiting for the current player to roll.")
                                 ELSE @]

\* ------------------------------------------------------------------------
\* fetchGameState: what a received snapshot does to the page
\* ------------------------------------------------------------------------
isFinished(s) == s.status = "finished" \/ s.has_winner = TRUE

renderCardDuelBranch(cl, s) ==
  LET c1 == [cl EXCEPT !.rollDisabled = TRUE]
      c2 == renderGunUI(c1, s)
  IN IF s.pick = "none"
       THEN c2
       ELSE renderQuestionUI(setDraftModalVisible(c2, s.pick = "open"), s)

renderBoardBranch(cl, s) ==
  LET c1 == [cl EXCEPT !.GAME_STATE = s]
      c2 == IF s.status = "ordering"
              THEN renderOrderModal(showOrderModal(c1), s)
              ELSE hideOrderModal(c1)
      c3 == updateDiceUI(c2, s)
      c4 == renderQuestionUI(c3, s)
      c5 == renderDraftUI(c4, s)
      c6 == renderGunUI(c5, s)
      c7 == IF s.pending_duel THEN showDuelModal(c6) ELSE hideDuelModal(c6)
      c8 == IF s.pending_shop THEN showShopModal(c7) ELSE hideShopModal(c7)
  IN IF isFinished(s)
       THEN [bqOpenFinishModal(c8) EXCEPT !.gamePoller = FALSE]
       ELSE c8

fetchGameStateApply(cl, s) ==
  IF s.mode = "card_duel" THEN renderCardDuelBranch(cl, s) ELSE renderBoardBranch(cl, s)

\* ------------------------------------------------------------------------
\* Network
\* ------------------------------------------------------------------------
\* q: the question an answer_question request was sent for, 0 otherwise
Resp(kind, res, s, q) == [kind |-> kind, res |-> res, snap |-> s, q |-> q]

CanSend == BagCardinality(net) < MaxInFlight

InFlight == BagToSet(net)

Put(r) == net (+) SetToBag({r})

Take(r) == net (-) SetToBag({r})

\* the responses a state request sent now can produce
StateResponses ==
  {Resp("state", "ok", Snapshot(srv), 0)}
  \cup (IF fails < MaxFail THEN {Resp("state", "neterr", NoState, 0)} ELSE {})

Failed(r) == IF r.res = "neterr" \/ r.res = "nodetail" THEN 1 ELSE 0

\* ------------------------------------------------------------------------
\* Initial state: the page after both DOMContentLoaded handlers ran
\* ------------------------------------------------------------------------
AllTiles == {"question", "shop", "duel", "gun"}

ServerAt(status, mode, tiles, turn, pick) ==
  [status |-> status, mode |-> mode, tiles |-> tiles, pend |-> "none", qid |-> 0,
   moves |-> 0, yourTurn |-> turn, orderPending |-> (status = "ordering"),
   hasWinner |-> FALSE, pick |-> pick]

\* a game with every tile kind, opened while ordering or while active, or a
\* card-duel game
InitServer ==
  {ServerAt("ordering", "board", AllTiles, FALSE, "none"),
   ServerAt("active", "board", AllTiles, TRUE, "none")}
  \cup {ServerAt("active", "card_duel", {}, FALSE, p) : p \in {"none", "open"}}

\* an active game on a board whose only special tiles are question tiles
InitServerQ == {ServerAt("active", "board", {"question"}, TRUE, "none")}

InitClient ==
  [GAME_STATE |-> NoState,
   questionModal |-> FALSE, shopModal |-> FALSE, duelModal |-> FALSE,
   gunModal |-> FALSE, draftModal |-> FALSE, orderModal |-> FALSE,
   finishModal |-> FALSE,
   rollDisabled |-> TRUE, orderRollDisabled |-> TRUE,
   diceText |-> "", hasValue |-> FALSE, shuffles |-> 0,
   gamePoller |-> TRUE,
   qRemaining |-> 0, qTicking |-> FALSE, qArmed |-> FALSE,
   ACTIVE_QUESTION_KEY |-> NullKey, qShown |-> 0, qEnabled |-> FALSE]

\* game_state.js after its DOMContentLoaded handler ran
InitGs ==
  [label |-> "", rollDisabled |-> TRUE, diceText |-> "", hasValue |-> FALSE,
   interval |-> TRUE]

NoReveal == [initiator_choice |-> "none", opponent_choice |-> "none"]

NoDuel ==
  [status |-> "none", you_are |-> "initiator", you_committed |-> FALSE,
   you_predicted |-> FALSE, winner_is_you |-> FALSE, reveal |-> NoReveal]

EmptyBody == [title |-> "", buttons |-> {}, disabled |-> FALSE, waiting |-> FALSE,
              revealed |-> {}]

InitDuelView == [open |-> FALSE, duel |-> NoDuel, dBody |-> EmptyBody]

NoPlayers == [status |-> "null", players |-> <<>>, rolls |-> <<>>]

InitPlayersView ==
  [state |-> NoPlayers, board |-> <<>>, ranking |-> <<>>, statusPanel |-> <<>>,
   tokens |-> <<>>, count |-> 0, orderList |-> <<>>]

\* the lobby template before the first poll: nothing is known of the game, and
\* the host controls are as the server rendered them
InitLobby ==
  [startForm |-> FALSE, hostHint |-> FALSE, waitingState |-> TRUE,
   activeState |-> FALSE, lastKnownStatus |-> "null", count |-> 0]

\* the chat panel before initChat has run
InitChat ==
  [input |-> <<>>, sendDisabled |-> FALSE, chatPoller |-> 0, intervals |-> {},
   timers |-> 0, inputListeners |-> 0, submitHandlers |-> 0,
   keydownHandlers |-> 0, calls |-> <<>>, shown |-> 0, loaded |-> 0]

\* the dice before the client has written a face: 0 stands for the template's
InitDice ==
  [boardRoll |-> 0, orderRoll |-> 0, text |-> [kind |-> "none", n |-> 0],
   alive |-> 0]

\* the card-duel part of the page after its DOMContentLoaded handler ran:
\* window.__cardDuelInterval is set
InitCd == [interval |-> TRUE, finishModal |-> FALSE, draftModal |-> FALSE]

\* no snapshot stored yet: window.GAME_STATE || null
NoActState == [isNull |-> TRUE, players |-> <<>>]

\* window.BQ_ACTIVITY as created, an empty #dice-log, no poll handled yet
InitAct ==
  [GAME_STATE |-> NoActState, lastPlayers |-> <<>>, seenKeys |-> {},
   appended |-> <<>>, logLen |-> 0, polls |-> 0]

\* #cd-hand before anything is rendered: no card, no processing attribute
InitHand == [shown |-> {}, processing |-> FALSE, feedback |-> ""]

\* the shop modal as the template delivers it: hidden and empty
NoShopState == [status |-> "null", pending_shop |-> FALSE, offers |-> {}, your_cards |-> {}]

InitShop ==
  [GAME_STATE |-> NoShopState, open |-> FALSE, offers |-> {}, sell |-> {}, feedback |-> ""]

InitPages ==
  /\ lobby = InitLobby
  /\ chat = InitChat
  /\ dice = InitDice
  /\ cd = InitCd
  /\ act = InitAct
  /\ hand = InitHand
  /\ shop = InitShop

InitOthers ==
  /\ gs = InitGs
  /\ duelView = InitDuelView
  /\ playersView = InitPlayersView
  /\ InitPages

InitPage(servers) ==
  /\ InitOthers
  /\ srv \in servers
  /\ net = SetToBag({Resp("state", "ok", Snapshot(srv), 0)})
  /\ c = InitClient
  /\ fails = 0
  /\ last = "init"
  /\ rendered = NoState
  /\ sent = [q |-> 0, n |-> 0, clicked |-> FALSE]

Init == InitPage(InitServer)

InitQ == InitPage(InitServerQ)

\* an active game on a board without special tiles
InitServerPlain == {ServerAt("active", "board", {}, TRUE, "none")}

InitPlain == InitPage(InitServerPlain)

\* ------------------------------------------------------------------------
\* Polling
\* ------------------------------------------------------------------------
\* setInterval(() => fetchGameState(gid), 2000): the request part
PollTick ==
  /\ c.gamePoller
  /\ CanSend
  /\ \E r \in StateResponses :
       /\ net' = Put(r)
       /\ fails' = fails + Failed(r)
  /\ last' = "PollTick"
  /\ UNCHANGED <<srv, c, rendered, sent>>
  /\ UNCHANGED others

\* fetchGameState after the response arrived
RecvState ==
  \E r \in InFlight :
    /\ r.kind = "state"
    /\ net' = Take(r)
    /\ c' = IF r.res = "ok" THEN fetchGameStateApply(c, r.snap) ELSE c
    /\ rendered' = IF r.res = "ok" THEN r.snap ELSE rendered
    /\ last' = IF r.res = "ok" THEN "RecvState" ELSE "RecvStateFailed"
    /\ UNCHANGED <<srv, fails, sent>>
    /\ UNCHANGED others

\* ------------------------------------------------------------------------
\* Moves of the other players
\* ------------------------------------------------------------------------
SrvOther ==
  /\ \E s \in SrvOtherMoves(srv) : srv' = s
  /\ last' = "SrvOther"
  /\ UNCHANGED <<net, c, fails, rendered, sent>>
  /\ UNCHANGED others

\* ------------------------------------------------------------------------
\* Posting an action: the server handles the request at once, the response
\* (or the network failure) reaches the client later
\* ------------------------------------------------------------------------
Outcomes(kind, q, accepted, nexts) ==
  (IF accepted
     THEN {<<s2, Resp(kind, "ok", Snapshot(s2), q)>> : s2 \in nexts}
     ELSE {<<srv, Resp(kind, "detail", NoState, q)>>})
  \cup (IF fails < MaxFail
          THEN {<<srv, Resp(kind, "neterr", NoState, q)>>,
                <<srv, Resp(kind, "nodetail", NoState, q)>>}
               \cup (IF accepted
                       THEN {<<s2, Resp(kind, "neterr", NoState, q)>> : s2 \in nexts}
                       ELSE {})
          ELSE {})

Post(kind, q, accepted, nexts) ==
  \E o \in Outcomes(kind, q, accepted, nexts) :
    /\ srv' = o[1]
    /\ net' = Put(o[2])
    /\ fails' = fails + Failed(o[2])

\* a handler that ends by calling fetchGameState(gameId)
Refetch(r) ==
  \E f \in StateResponses :
    /\ net' = Take(r) (+) SetToBag({f})
    /\ fails' = fails + Failed(f)

\* history bookkeeping: response r reported a request for the question as failed
Unbump(r) ==
  IF r.res # "ok" /\ r.q = sent.q /\ sent.n > 0
    THEN [sent EXCEPT !.n = @ - 1]
    ELSE sent

\* history bookkeeping: one more answer_question request for question q
Bump(q, click) ==
  IF sent.q = q
    THEN [q |-> q, n |-> IF sent.n < 2 THEN sent.n + 1 ELSE 2,
          clicked |-> sent.clicked \/ click]
    ELSE [q |-> q, n |-> 1, clicked |-> click]

\* ------------------------------------------------------------------------
\* handleRollClick
\* ------------------------------------------------------------------------
rollPressed(cl) ==
  [cl EXCEPT !.rollDisabled = TRUE, !.orderRollDisabled = TRUE,
             !.hasValue = TRUE, !.diceText = "Rolling...", !.shuffles = @ + 1]

PostRoll(url) ==
  IF url = "order_roll"
    THEN Post("roll", 0, OrderRollAccepted(srv), {SrvAfterOrderRoll(srv)})
    ELSE Post("roll", 0, RollAccepted(srv), SrvAfterRoll(srv))

\* click on #roll-button: the URL depends on window.GAME_STATE
RollClick ==
  /\ ~c.rollDisabled
  /\ CanSend
  /\ LET url == IF c.GAME_STATE.status = "ordering" THEN "order_roll" ELSE "roll"
     IN /\ PostRoll(url)
        /\ last' = IF url = "roll" THEN "RollClick:roll" ELSE "RollClick:order_roll"
  /\ c' = rollPressed(c)
  /\ UNCHANGED <<rendered, sent>>
  /\ UNCHANGED others

\* click on #orderRollBtn in the order modal
OrderRollClick ==
  /\ c.orderModal
  /\ ~c.orderRollDisabled
  /\ CanSend
  /\ PostRoll("order_roll")
  /\ c' = rollPressed(c)
  /\ last' = "OrderRollClick"
  /\ UNCHANGED <<rendered, sent>>
  /\ UNCHANGED others

rollApplied(cl, s) ==
  LET c0 == [cl EXCEPT !.shuffles = @ - 1, !.diceText = "You rolled N."]
      c1 == [c0 EXCEPT !.GAME_STATE = s]
      c2 == updateDiceUI(c1, s)
      c3 == renderQuestionUI(c2, s)
      c4 == renderDraftUI(c3, s)
      c5 == renderGunUI(c4, s)
  IN IF s.status = "ordering" THEN renderOrderModal(showOrderModal(c5), s) ELSE c5

\* a failure branch that forgets stopShuffleBoard() / stopShuffleOrder()
rollFailedKeepsShuffling(cl, res) ==
  [cl EXCEPT !.diceText = IF res = "detail" THEN "detail"
                          ELSE IF res = "nodetail" THEN "Error: status"
                          ELSE "Error while rolling."]

rollFailed(cl, res) ==
  [cl EXCEPT !.shuffles = @ - 1,
             !.diceText = IF res = "detail" THEN "detail"
                          ELSE IF res = "nodetail" THEN "Error: status"
                          ELSE "Error while rolling."]

RecvRoll ==
  \E r \in InFlight :
    /\ r.kind = "roll"
    /\ IF r.res = "ok"
         THEN /\ c' = rollApplied(c, r.snap)
              /\ rendered' = r.snap
              /\ net' = Take(r)
              /\ last' = "RecvRoll"
              /\ UNCHANGED fails
         ELSE /\ c' = rollFailed(c, r.res)
              /\ UNCHANGED rendered
              /\ Refetch(r)
              /\ last' = "RecvRollFailed"
    /\ UNCHANGED <<srv, sent>>
    /\ UNCHANGED others

\* ------------------------------------------------------------------------
\* Question: choice click, countdown, timeout
\* ------------------------------------------------------------------------
ChoiceClick ==
  /\ c.questionModal
  /\ c.qEnabled
  /\ CanSend
  /\ c' = [stopQuestionTimer([c EXCEPT !.ACTIVE_QUESTION_KEY = NullKey])
             EXCEPT !.qEnabled = FALSE]
  /\ Post("answer", c.qShown, ResolveAccepted(srv, "question"), {SrvAfterResolve(srv)})
  /\ sent' = Bump(c.qShown, TRUE)
  /\ UNCHANGED rendered
  /\ last' = "ChoiceClick"
  /\ UNCHANGED others

answerApplied(cl, s) ==
  renderGunUI(renderQuestionUI(updateDiceUI(cl, s), s), s)

RecvAnswer ==
  \E r \in InFlight :
    /\ r.kind = "answer"
    /\ net' = Take(r)
    /\ c' = IF r.res = "ok"
              THEN answerApplied(c, r.snap)
              ELSE [c EXCEPT !.qEnabled = TRUE]
    /\ rendered' = IF r.res = "ok" THEN r.snap ELSE rendered
    /\ last' = IF r.res = "ok" THEN "RecvAnswer" ELSE "RecvAnswerFailed"
    /\ sent' = Unbump(r)
    /\ UNCHANGED <<srv, fails>>
    /\ UNCHANGED others

\* one firing of the setInterval callback of startQuestionTimer
TimerTick ==
  /\ c.qTicking
  /\ c' = IF c.qRemaining - 1 <= 0
            THEN [c EXCEPT !.qRemaining = 0, !.qTicking = FALSE, !.qArmed = TRUE]
            ELSE [c EXCEPT !.qRemaining = @ - 1]
  /\ last' = "TimerTick"
  /\ UNCHANGED <<srv, net, fails, rendered, sent>>
  /\ UNCHANGED others

\* the delayed onTimeout callback up to its await
TimeoutFire ==
  /\ c.qArmed
  /\ CanSend
  /\ c' = [c EXCEPT !.qArmed = FALSE, !.qEnabled = FALSE]
  /\ Post("timeout", c.qShown, ResolveAccepted(srv, "question"), {SrvAfterResolve(srv)})
  /\ sent' = Bump(c.qShown, FALSE)
  /\ UNCHANGED rendered
  /\ last' = "TimeoutFire"
  /\ UNCHANGED others

\* finally { fetchGameState(gameId) }
RecvTimeout ==
  \E r \in InFlight :
    /\ r.kind = "timeout"
    /\ Refetch(r)
    /\ last' = IF r.res = "ok" THEN "RecvTimeout" ELSE "RecvTimeoutFailed"
    /\ sent' = Unbump(r)
    /\ UNCHANGED <<srv, c, rendered>>
    /\ UNCHANGED others

\* ------------------------------------------------------------------------
\* Shop close, gun attack, draft pick
\* ------------------------------------------------------------------------
ShopCloseClick ==
  /\ c.shopModal
  /\ CanSend
  /\ Post("shopClose", 0, ResolveAccepted(srv, "shop"), {SrvAfterResolve(srv)})
  /\ last' = "ShopCloseClick"
  /\ UNCHANGED <<c, rendered, sent>>
  /\ UNCHANGED others

RecvShopClose ==
  \E r \in InFlight :
    /\ r.kind = "shopClose"
    /\ net' = Take(r)
    /\ c' = IF r.res = "ok" THEN hideShopModal(applyGameStateUpdate(c, r.snap)) ELSE c
    /\ rendered' = IF r.res = "ok" THEN r.snap ELSE rendered
    /\ last' = IF r.res = "ok" THEN "RecvShopClose" ELSE "RecvShopCloseFailed"
    /\ UNCHANGED <<srv, fails, sent>>
    /\ UNCHANGED others

GunAttackClick ==
  /\ c.gunModal
  /\ CanSend
  /\ Post("gunAttack", 0, ResolveAccepted(srv, "gun"), {SrvAfterResolve(srv)})
  /\ last' = "GunAttackClick"
  /\ UNCHANGED <<c, rendered, sent>>
  /\ UNCHANGED others

RecvGunAttack ==
  \E r \in InFlight :
    /\ r.kind = "gunAttack"
    /\ net' = Take(r)
    /\ c' = IF r.res = "ok" THEN applyGameStateUpdate(c, r.snap) ELSE c
    /\ rendered' = IF r.res = "ok" THEN r.snap ELSE rendered
    /\ last' = IF r.res = "ok" THEN "RecvGunAttack" ELSE "RecvGunAttackFailed"
    /\ UNCHANGED <<srv, fails, sent>>
    /\ UNCHANGED others

DraftPickClick ==
  /\ c.draftModal
  /\ srv.mode = "board"
  /\ srv' = IF srv.pend = "draft" THEN SrvAfterDraftPick(srv) ELSE srv
  /\ last' = "DraftPickClick"
  /\ UNCHANGED <<net, c, fails, rendered, sent>>
  /\ UNCHANGED others

\* ------------------------------------------------------------------------
\* The board page
\* ------------------------------------------------------------------------
Next ==
  \/ PollTick
  \/ RecvState
  \/ SrvOther
  \/ RollClick
  \/ OrderRollClick
  \/ RecvRoll
  \/ ChoiceClick
  \/ RecvAnswer
  \/ TimerTick
  \/ TimeoutFire
  \/ RecvTimeout
  \/ ShopCloseClick
  \/ RecvShopClose
  \/ GunAttackClick
  \/ RecvGunAttack
  \/ DraftPickClick

Spec == Init /\ [][Next]_vars

\* ------------------------------------------------------------------------
\* The board page of a game whose board has question tiles only
\* ------------------------------------------------------------------------
NextQ ==
  \/ PollTick
  \/ RecvState
  \/ SrvOther
  \/ RollClick
  \/ RecvRoll
  \/ ChoiceClick
  \/ RecvAnswer
  \/ TimerTick
  \/ TimeoutFire
  \/ RecvTimeout

SpecQ == InitQ /\ [][NextQ]_vars

\* ------------------------------------------------------------------------
\* The board page of a game whose board has no special tiles: polling and rolling
\* ------------------------------------------------------------------------
NextPlain ==
  \/ PollTick
  \/ RecvState
  \/ SrvOther
  \/ RollClick
  \/ RecvRoll

SpecPlain == InitPlain /\ [][NextPlain]_vars

TypeOK == BagCardinality(net) <= MaxInFlight /\ c.shuffles \in 0..MaxInFlight /\ fails <= MaxFail

\* ------------------------------------------------------------------------
\* Properties
\* ------------------------------------------------------------------------
OpenModals ==
  (IF c.questionModal THEN {"question"} ELSE {})
  \cup (IF c.shopModal THEN {"shop"} ELSE {})
  \cup (IF c.duelModal THEN {"duel"} ELSE {})
  \cup (IF c.gunModal THEN {"gun"} ELSE {})
  \cup (IF c.draftModal THEN {"draft"} ELSE {})

\* C2: at most one PendingAction is open at any time: whatever poll responses and
\* action responses the board client has applied, at most one of the question,
\* shop, duel, gun and draft modals is open.
C2_AtMostOneModalOpen == Cardinality(OpenModals) <= 1

\* ------------------------------------------------------------------------
\* Rolling
\* ------------------------------------------------------------------------
NoPending(s) ==
  /\ s.pending_question = NoQuestion
  /\ ~s.pending_shop
  /\ ~s.pending_duel
  /\ ~s.pending_gun

\* C4: a roll is possible only on the viewer's own turn with no pending action:
\* POST /roll/ is sent, and the roll button is enabled, only if in the snapshot
\* rendered last the game is active, the viewer is the current-turn player and no
\* question, shop, duel or gun action is pending.
C4_RollOnlyOnOwnTurnWithoutPending ==
  (last = "RollClick:roll" \/ ~c.rollDisabled)
    => (rendered.status = "active" /\ rendered.your_turn /\ NoPending(rendered))

\* C5: for one pending question the client sends at most one answer_question
\* request, a chosen answer or the timeout, under every interleaving of clicks,
\* timer events and poll responses (a request that was reported back as failed
\* is not counted, so a retry after an error is allowed here).
C5_OneAnswerRequestPerQuestion == sent.n <= 1

RollErrorText(res) ==
  IF res = "detail" THEN "detail"
  ELSE IF res = "nodetail" THEN "Error: status"
  ELSE "Error while rolling."

\* C6: when a roll request comes back non-2xx or fails on the network,
\* handleRollClick shows the detail text or a generic error text, stops the dice
\* shuffle it started, sends one state request and leaves the poller running; the
\* state response, once applied, sets the roll button from the server snapshot.
C6_RollFailureResyncs ==
  /\ [][\A r \in InFlight :
          (/\ last' = "RecvRollFailed"
           /\ r.kind = "roll"
           /\ CopiesIn(r, net') < CopiesIn(r, net))
          => /\ r.res # "ok"
             /\ c'.diceText = RollErrorText(r.res)
             /\ c'.shuffles = c.shuffles - 1
             /\ \E f \in BagToSet(net') :
                  f.kind = "state" /\ CopiesIn(f, net') = CopiesIn(f, net) + 1
             /\ BagCardinality(net') = BagCardinality(net)
             /\ c'.gamePoller = c.gamePoller]_vars
  /\ [](last = "RecvState" /\ rendered.status = "active"
          => c.rollDisabled = ~rendered.your_turn)

C6_Witness ==
  /\ last = "RecvRollFailed"
  /\ c.diceText = "detail"
  /\ c.shuffles = 0
  /\ c.gamePoller
  /\ \E f \in InFlight : f.kind = "state" /\ f.res = "ok"

\* ------------------------------------------------------------------------
\* Question countdown
\* ------------------------------------------------------------------------
\* C10: while one question stays pending and the player has not clicked a choice,
\* no step restarts or extends the countdown of that question once it has been
\* shown: the timer is started once per question.
C10_CountdownStartedOncePerQuestion ==
  [][(/\ srv.pend = "question" /\ srv'.pend = "question"
      /\ srv.qid = c.qShown /\ c'.qShown = c.qShown
      /\ ~(sent'.q = c.qShown /\ sent'.clicked))
     => /\ c'.qRemaining <= c.qRemaining
        /\ (c'.qTicking => c.qTicking)]_vars

\* ------------------------------------------------------------------------
\* The question-only board page under fair scheduling: the countdown interval
\* and the delayed timeout callback fire, the poller fires, responses arrive
\* ------------------------------------------------------------------------
FairSpecQ ==
  /\ SpecQ
  /\ WF_vars(TimerTick)
  /\ SF_vars(TimeoutFire)
  /\ SF_vars(PollTick)
  /\ WF_vars(RecvState)
  /\ WF_vars(RecvRoll)
  /\ WF_vars(RecvAnswer)
  /\ WF_vars(RecvTimeout)

\* C1: a pending question that the client displays and the player never answers
\* does not stay pending forever: it ends up resolved, also when a timeout
\* request is rejected or fails on the network.
C1_UnansweredQuestionResolves ==
  (srv.pend = "question" /\ c.questionModal /\ c.qShown = srv.qid)
    ~> (srv.pend # "question" \/ (sent.q = srv.qid /\ sent.clicked))

\* ------------------------------------------------------------------------
\* End of the game on the board page
\* ------------------------------------------------------------------------
\* C8: when fetchGameState has applied a snapshot with status finished or
\* has_winner true, in board mode or in card_duel mode, the finish modal is open
\* and the gamePoller interval is cleared.
C8_FinishedStopsPolling ==
  (last = "RecvState" /\ isFinished(rendered)) => (c.finishModal /\ ~c.gamePoller)

\* ------------------------------------------------------------------------
\* game_state.js: dice panel, polling and rolling on the page it drives
\* ------------------------------------------------------------------------
gs_updateDiceUI(g, s) ==
  IF s.status # "active"
    THEN [g EXCEPT !.label = "Game is not active.", !.rollDisabled = TRUE]
    ELSE LET g1 == [g EXCEPT !.label = IF s.your_turn THEN "Current player: you"
                                       ELSE "Current player: other",
                             !.rollDisabled = (~s.your_turn \/ ~s.any_alive)]
             g2 == IF s.status = "finished"
                     THEN [g1 EXCEPT !.rollDisabled = TRUE, !.label = "Game finished."]
                     ELSE g1
             g3 == IF s.status = "finished" /\ g2.interval
                     THEN [g2 EXCEPT !.interval = FALSE]
                     ELSE g2
         IN [g3 EXCEPT !.diceText = IF ~g3.hasValue
                                      THEN (IF s.your_turn
                                              THEN "It is your turn. Roll the dice."
                                              ELSE "Waiting for the current player to roll.")
                                      ELSE @]

\* an active game without special tiles, opened on either player's turn
InitServerGs == {ServerAt("active", "board", {}, turn, "none") : turn \in BOOLEAN}

InitGsPage ==
  /\ srv \in InitServerGs
  /\ net = SetToBag({Resp("state", "ok", Snapshot(srv), 0)})
  /\ c = InitClient
  /\ fails = 0
  /\ last = "init"
  /\ rendered = NoState
  /\ sent = [q |-> 0, n |-> 0, clicked |-> FALSE]
  /\ gs = InitGs
  /\ duelView = InitDuelView
  /\ playersView = InitPlayersView
  /\ InitPages

\* setInterval(() => fetchGameState(GAME_ID), 2000): the request part
GsPollTick ==
  /\ gs.interval
  /\ CanSend
  /\ \E r \in StateResponses :
       /\ net' = Put(r)
       /\ fails' = fails + Failed(r)
  /\ last' = "GsPollTick"
  /\ UNCHANGED <<srv, c, rendered, sent, gs, duelView, playersView, pages>>

\* fetchGameState after the response arrived
GsRecvState ==
  \E r \in InFlight :
    /\ r.kind = "state"
    /\ net' = Take(r)
    /\ gs' = IF r.res = "ok" THEN gs_updateDiceUI(gs, r.snap) ELSE gs
    /\ rendered' = IF r.res = "ok" THEN r.snap ELSE rendered
    /\ last' = IF r.res = "ok" THEN "GsRecvState" ELSE "GsRecvStateFailed"
    /\ UNCHANGED <<srv, c, fails, sent, duelView, playersView, pages>>

\* handleRollClick up to its await
GsRollClick ==
  /\ ~gs.rollDisabled
  /\ CanSend
  /\ Post("roll", 0, RollAccepted(srv), SrvAfterRoll(srv))
  /\ gs' = [gs EXCEPT !.rollDisabled = TRUE, !.diceText = "Rolling..."]
  /\ last' = "GsRollClick"
  /\ UNCHANGED <<c, rendered, sent, duelView, playersView, pages>>

\* handleRollClick after its await
GsRecvRoll ==
  \E r \in InFlight :
    /\ r.kind = "roll"
    /\ IF r.res = "ok"
         THEN /\ gs' = gs_updateDiceUI([gs EXCEPT !.diceText = "You rolled N.",
                                                  !.hasValue = TRUE], r.snap)
              /\ rendered' = r.snap
              /\ net' = Take(r)
              /\ last' = "GsRecvRoll"
              /\ UNCHANGED fails
         ELSE IF r.res = "neterr"
         THEN /\ gs' = [gs EXCEPT !.diceText = "Error while rolling.", !.hasValue = TRUE]
              /\ net' = Take(r)
              /\ last' = "GsRecvRollFailed"
              /\ UNCHANGED <<rendered, fails>>
         ELSE /\ gs' = [gs EXCEPT !.diceText = IF r.res = "detail" THEN "detail"
                                               ELSE "Error: status",
                                  !.hasValue = TRUE]
              /\ Refetch(r)
              /\ last' = "GsRecvRollFailed"
              /\ UNCHANGED rendered
    /\ UNCHANGED <<srv, c, sent, duelView, playersView, pages>>

GsSrvOther ==
  /\ \E s \in SrvOtherMoves(srv) : srv' = s
  /\ last' = "GsSrvOther"
  /\ UNCHANGED <<net, c, fails, rendered, sent, gs, duelView, playersView, pages>>

NextGs ==
  \/ GsPollTick
  \/ GsRecvState
  \/ GsRollClick
  \/ GsRecvRoll
  \/ GsSrvOther

SpecGs == InitGsPage /\ [][NextGs]_vars

\* C9: in game_state.js, when a polled snapshot has status finished, updateDiceUI
\* disables the roll button, sets the turn label to "Game finished." and clears
\* the window.__gameStateInterval poller.
C9_FinishedStopsGameStatePolling ==
  (last = "GsRecvState" /\ rendered.status = "finished")
    => (gs.rollDisabled /\ gs.label = "Game finished." /\ ~gs.interval)

\* ------------------------------------------------------------------------
\* Duel modal: renderDuelUI on the pending_duel payload of a snapshot
\* ------------------------------------------------------------------------
DuelStatuses == {"choose_opponent", "commit", "predict", "winner_choice", "resolved"}

DuelChoices == {"attack", "defend", "bluff"}

\* the pending_duel payloads, as seen by the initiator or by the opponent
DuelPayloads ==
  [status : DuelStatuses,
   you_are : {"initiator", "opponent"},
   you_committed : BOOLEAN,
   you_predicted : BOOLEAN,
   winner_is_you : BOOLEAN,
   reveal : {NoReveal}
            \cup [initiator_choice : DuelChoices, opponent_choice : DuelChoices]]

renderDuelUI(duel) ==
  IF duel.status = "choose_opponent"
    THEN [EmptyBody EXCEPT !.title = "Choose an opponent", !.buttons = {"opponent"}]
  ELSE IF duel.status = "commit"
    THEN [EmptyBody EXCEPT !.title = "Choose your action (hidden)",
                           !.buttons = DuelChoices,
                           !.disabled = duel.you_committed,
                           !.waiting = duel.you_committed]
  ELSE IF duel.status = "predict"
    THEN [EmptyBody EXCEPT !.title = "Predict opponent's choice",
                           !.buttons = DuelChoices,
                           !.disabled = duel.you_predicted,
                           !.waiting = duel.you_predicted]
  ELSE IF duel.status = "winner_choice"
    THEN [EmptyBody EXCEPT
            !.title = IF duel.winner_is_you THEN "You won! Choose your reward"
                      ELSE "You lost the duel",
            !.revealed = IF duel.reveal # NoReveal
                           THEN {<<"initiator", duel.reveal.initiator_choice>>,
                                 <<"opponent", duel.reveal.opponent_choice>>}
                           ELSE {},
            !.waiting = ~duel.winner_is_you,
            !.buttons = IF duel.winner_is_you
                          THEN {"coins", "hp", "push_back", "steal_card"}
                          ELSE {}]
  ELSE IF duel.status = "resolved"
    THEN [EmptyBody EXCEPT !.title = "Duel resolved"]
  ELSE EmptyBody

InitDuelPage ==
  /\ srv = ServerAt("active", "board", {"duel"}, FALSE, "none")
  /\ net = EmptyBag
  /\ c = InitClient
  /\ fails = 0
  /\ last = "init"
  /\ rendered = NoState
  /\ sent = [q |-> 0, n |-> 0, clicked |-> FALSE]
  /\ gs = InitGs
  /\ duelView = InitDuelView
  /\ playersView = InitPlayersView
  /\ InitPages

\* fetchGameState on a snapshot with pending_duel: showDuelModal, renderDuelUI
RenderDuel ==
  /\ \E d \in DuelPayloads :
       duelView' = [open |-> TRUE, duel |-> d, dBody |-> renderDuelUI(d)]
  /\ UNCHANGED <<srv, net, c, fails, last, rendered, sent, gs, playersView, pages>>

\* fetchGameState on a snapshot without pending_duel: hideDuelModal
HideDuel ==
  /\ duelView.open
  /\ duelView' = [duelView EXCEPT !.open = FALSE, !.dBody = EmptyBody]
  /\ UNCHANGED <<srv, net, c, fails, last, rendered, sent, gs, playersView, pages>>

NextDuel ==
  \/ RenderDuel
  \/ HideDuel

SpecDuel == InitDuelPage /\ [][NextDuel]_vars

\* C3: in every duel status before resolved (choose_opponent, commit, predict,
\* winner_choice) the duel modal shows the viewer no committed choice of the
\* other player.
C3_NoChoiceShownBeforeResolved ==
  (duelView.open /\ duelView.duel.status \in DuelStatuses \ {"resolved"})
    => \A x \in duelView.dBody.revealed : x[1] = duelView.duel.you_are

\* ------------------------------------------------------------------------
\* What the board page renders from state.players
\* ------------------------------------------------------------------------
PlayerIds == 1..MaxPlayerId

Positions == 0..MaxPosition

\* the viewer is player 1
Player == [id : PlayerIds, position : Positions]

PlayerLists == UNION {[1..n -> Player] : n \in 0..MaxPlayers}

\* status, state.players and the first roll of state.ordering.roll_history
PlayersPayloads ==
  [status : {"ordering", "active"}, players : PlayerLists,
   rolls : [PlayerIds -> 1..MaxRoll]]

\* the seenIds loop: the first entry of every id, in payload order
RECURSIVE dedupe(_)
dedupe(ps) ==
  IF ps = <<>> THEN <<>>
  ELSE LET front == dedupe(SubSeq(ps, 1, Len(ps) - 1))
           p == ps[Len(ps)]
       IN IF \E i \in DOMAIN front : front[i].id = p.id THEN front ELSE Append(front, p)

\* Array.prototype.sort with a comparator b.key - a.key: stable, descending;
\* ks are <<key, player>> pairs
RECURSIVE sortDesc(_)
sortDesc(ks) ==
  IF ks = <<>> THEN <<>>
  ELSE LET front == sortDesc(SubSeq(ks, 1, Len(ks) - 1))
           k == ks[Len(ks)]
           n == Cardinality({i \in DOMAIN front : front[i][1] >= k[1]})
       IN SubSeq(front, 1, n) \o <<k>> \o SubSeq(front, n + 1, Len(front))

Unkeyed(ks) == [i \in DOMAIN ks |-> ks[i][2]]

\* players grouped by tile, tiles in ascending position
RECURSIVE byPosition(_, _)
byPosition(ps, pos) ==
  IF pos > MaxPosition THEN <<>>
  ELSE SelectSeq(ps, LAMBDA p : p.position = pos) \o byPosition(ps, pos + 1)

updateBoardUI(s) == byPosition(dedupe(s.players), 0)

updatePlayersUI(s) ==
  LET players == dedupe(s.players)
  IN Unkeyed(sortDesc([i \in DOMAIN players |-> <<players[i].position, players[i]>>]))

updatePlayerStatusUI(s) == SelectSeq(dedupe(s.players), LAMBDA p : p.id = 1)

renderPlayerTokens(s) == byPosition(dedupe(s.players), 0)

playerCount(s) == Len(s.players)

computeProvisionalOrder(s) ==
  Unkeyed(sortDesc([i \in DOMAIN s.players |-> <<s.rolls[s.players[i].id], s.players[i]>>]))

InitPlayersPage ==
  /\ srv = ServerAt("ordering", "board", AllTiles, FALSE, "none")
  /\ net = EmptyBag
  /\ c = InitClient
  /\ fails = 0
  /\ last = "init"
  /\ rendered = NoState
  /\ sent = [q |-> 0, n |-> 0, clicked |-> FALSE]
  /\ gs = InitGs
  /\ duelView = InitDuelView
  /\ playersView = InitPlayersView
  /\ InitPages

\* fetchGameState, board branch, on a snapshot of a game in the ordering phase
RenderOrdering ==
  /\ \E s \in PlayersPayloads :
       /\ s.status = "ordering"
       /\ playersView' = [state |-> s,
                          board |-> updateBoardUI(s),
                          ranking |-> updatePlayersUI(s),
                          statusPanel |-> updatePlayerStatusUI(s),
                          tokens |-> renderPlayerTokens(s),
                          count |-> playerCount(s),
                          orderList |-> computeProvisionalOrder(s)]
  /\ UNCHANGED <<srv, net, c, fails, last, rendered, sent, gs, duelView, pages>>

\* fetchGameState, board branch, on a snapshot of any other status: the order
\* modal is hidden and its list is left as it was
RenderPlaying ==
  /\ \E s \in PlayersPayloads :
       /\ s.status # "ordering"
       /\ playersView' = [playersView EXCEPT
                            !.state = s,
                            !.board = updateBoardUI(s),
                            !.ranking = updatePlayersUI(s),
                            !.statusPanel = updatePlayerStatusUI(s),
                            !.tokens = renderPlayerTokens(s),
                            !.count = playerCount(s)]
  /\ UNCHANGED <<srv, net, c, fails, last, rendered, sent, gs, duelView, pages>>

NextPlayers ==
  \/ RenderOrdering
  \/ RenderPlaying

SpecPlayers == InitPlayersPage /\ [][NextPlayers]_vars

IdsOf(ps) == {ps[i].id : i \in DOMAIN ps}

FirstOf(ps, id) ==
  ps[CHOOSE i \in DOMAIN ps : ps[i].id = id /\ \A j \in 1..(i - 1) : ps[j].id # id]

ShowsEachOnce(shown, ps) ==
  \A i \in DOMAIN shown :
    /\ shown[i].id \in IdsOf(ps)
    /\ shown[i] = FirstOf(ps, shown[i].id)
    /\ \A j \in DOMAIN shown : shown[j].id = shown[i].id => j = i

\* C7: for every snapshot, each thing the board page renders from state.players
\* (board tiles, ranking list, status panel, tokens, player count, order list)
\* shows or counts each player id at most once, keeping the first occurrence.
C7_PlayersDedupedOnEveryRender ==
  LET ps == playersView.state.players
  IN /\ ShowsEachOnce(playersView.board, ps)
     /\ ShowsEachOnce(playersView.ranking, ps)
     /\ ShowsEachOnce(playersView.statusPanel, ps)
     /\ ShowsEachOnce(playersView.tokens, ps)
     /\ playersView.count = Cardinality(IdsOf(ps))
     /\ (playersView.state.status = "ordering"
          => ShowsEachOnce(playersView.orderList, ps))

\* ------------------------------------------------------------------------
\* The lobby page (game_lobby.js)
\* ------------------------------------------------------------------------
MaxLobbyPlayers == 3

LobbyStatuses == {"waiting", "ordering", "drafting", "active", "finished"}

\* the payload of GET /games/<id>/state/ as the lobby reads it: the status and
\* the list of players (here their user names)
LobbySnapshot(s) == [status |-> s.status, players |-> s.players]

\* the lobby of a game that one to MaxLobbyPlayers players have joined
LobbyServers ==
  {[status |-> "waiting", players |-> [i \in 1..n |-> i]] :
     n \in 1..MaxLobbyPlayers}

\* the page as the template rendered it for the host: the form or the hint
LobbyTemplates ==
  {[InitLobby EXCEPT !.startForm = f, !.hostHint = ~f] : f \in BOOLEAN}

\* updateLobbyPlayers: the "n / max" counter of the player list
updateLobbyPlayers(lb, s) == [lb EXCEPT !.count = Len(s.players)]

\* updateGameStatusUI: the waiting and the active section of the page
updateGameStatusUI(lb, s) ==
  IF s.status = "waiting"
    THEN [lb EXCEPT !.waitingState = TRUE, !.activeState = FALSE]
  ELSE IF s.status \in {"ordering", "drafting", "active"}
    THEN [lb EXCEPT !.waitingState = FALSE, !.activeState = TRUE]
  ELSE lb

\* a start form that one player is enough to show
updateLobbyStartUIFromOne(lb, s) ==
  IF s.status # "waiting" THEN lb
  ELSE LET canStart == Len(s.players) >= 1
       IN [lb EXCEPT !.startForm = canStart, !.hostHint = ~canStart]

\* updateLobbyStartUI: the start form for two players or more, else the hint
updateLobbyStartUI(lb, s) ==
  IF s.status # "waiting" THEN lb
  ELSE LET canStart == Len(s.players) >= 2
       IN [lb EXCEPT !.startForm = canStart, !.hostHint = ~canStart]

\* fetchLobbyState after the response has been parsed
lobbyApply(lb, s) ==
  LET known == IF lb.lastKnownStatus = "null" THEN s.status
               ELSE lb.lastKnownStatus
      started == known = "waiting"
                   /\ s.status \in {"ordering", "drafting", "active"}
      l1 == IF started THEN updateGameStatusUI(lb, s) ELSE lb
      l2 == [l1 EXCEPT !.lastKnownStatus = s.status]
      l3 == IF s.status \in {"waiting", "active"}
              THEN updateLobbyPlayers(l2, s) ELSE l2
      l4 == IF s.status = "waiting" THEN updateLobbyStartUI(l3, s) ELSE l3
  IN updateGameStatusUI(l4, s)

InitLobbyPage ==
  /\ srv \in LobbyServers
  /\ net = SetToBag({Resp("lobby", "ok", LobbySnapshot(srv), 0)})
  /\ c = InitClient
  /\ fails = 0
  /\ last = "init"
  /\ rendered = NoState
  /\ sent = [q |-> 0, n |-> 0, clicked |-> FALSE]
  /\ gs = InitGs
  /\ duelView = InitDuelView
  /\ playersView = InitPlayersView
  /\ lobby \in LobbyTemplates
  /\ chat = InitChat
  /\ dice = InitDice
  /\ cd = InitCd
  /\ act = InitAct
  /\ hand = InitHand
  /\ shop = InitShop

\* what the lobby's handlers leave alone
notLobby == <<c, sent, gs, duelView, playersView, chat, dice, cd, act, hand, shop>>

\* setInterval(() => fetchLobbyState(GAME_ID), 2000): the request part
LobbyPollTick ==
  /\ CanSend
  /\ \/ /\ net' = Put(Resp("lobby", "ok", LobbySnapshot(srv), 0))
        /\ fails' = fails
     \/ /\ fails < MaxFail
        /\ net' = Put(Resp("lobby", "error", NoState, 0))
        /\ fails' = fails + 1
  /\ last' = "LobbyPollTick"
  /\ UNCHANGED <<srv, rendered, lobby, notLobby>>

\* fetchLobbyState from the response on: a response that is not ok, or whose
\* fetch threw, changes nothing
LobbyRecv ==
  /\ \E r \in InFlight :
       /\ r.kind = "lobby"
       /\ net' = Take(r)
       /\ IF r.res = "ok"
            THEN /\ lobby' = lobbyApply(lobby, r.snap)
                 /\ rendered' = r.snap
                 /\ last' = "LobbyRecv"
            ELSE /\ UNCHANGED <<lobby, rendered>>
                 /\ last' = "LobbyRecvFailed"
  /\ UNCHANGED <<srv, fails, notLobby>>

\* another player joins or leaves the waiting game
LobbySrvJoin ==
  /\ srv.status = "waiting"
  /\ \/ /\ Len(srv.players) < MaxLobbyPlayers
        /\ srv' = [srv EXCEPT !.players = Append(@, Len(@) + 1)]
     \/ /\ Len(srv.players) > 1
        /\ srv' = [srv EXCEPT !.players = SubSeq(@, 1, Len(@) - 1)]
  /\ last' = "LobbySrvJoin"
  /\ UNCHANGED <<net, fails, rendered, lobby, notLobby>>

\* the host starts the game, and the game runs through its phases
LobbySrvAdvance ==
  /\ \/ /\ srv.status = "waiting"
        /\ Len(srv.players) >= 2
        /\ srv' = [srv EXCEPT !.status = "ordering"]
     \/ /\ srv.status = "ordering"
        /\ srv' = [srv EXCEPT !.status = "drafting"]
     \/ /\ srv.status \in {"ordering", "drafting"}
        /\ srv' = [srv EXCEPT !.status = "active"]
     \/ /\ srv.status = "active"
        /\ srv' = [srv EXCEPT !.status = "finished"]
  /\ last' = "LobbySrvAdvance"
  /\ UNCHANGED <<net, fails, rendered, lobby, notLobby>>

NextLobby == LobbyPollTick \/ LobbyRecv \/ LobbySrvJoin \/ LobbySrvAdvance

SpecLobby == InitLobbyPage /\ [][NextLobby]_vars

\* C11: every lobby poll that is applied with a snapshot of status waiting
\* leaves the Start Game form shown exactly when the snapshot has two players
\* or more and the host hint shown exactly when it has fewer; a snapshot of
\* any other status leaves both as they were.
C11_StartFormFollowsPlayerCount ==
  [][last' = "LobbyRecv" =>
       IF rendered'.status = "waiting"
         THEN /\ lobby'.startForm = (Len(rendered'.players) >= 2)
              /\ lobby'.hostHint = (Len(rendered'.players) < 2)
         ELSE /\ lobby'.startForm = lobby.startForm
              /\ lobby'.hostHint = lobby.hostHint]_vars

\* a poll has shown the form for two players, and a later one the hint again
C11_Witness ==
  /\ last = "LobbyRecv"
  /\ rendered.status = "waiting"
  /\ Len(rendered.players) < 2
  /\ lobby.hostHint
  /\ ~lobby.startForm
  /\ lobby.count = 1
  /\ lobby.lastKnownStatus = "waiting"
  /\ srv.status = "active"

\* ------------------------------------------------------------------------
\* The chat panel (game_board.js, GAME CHAT)
\* ------------------------------------------------------------------------
MaxText == 2

MaxMessages == 1

\* what the player can type: blanks and letters
Chars == {" ", "a"}

Texts == UNION {[1..n -> Chars] : n \in 0..MaxText}

\* String.prototype.trim: the blanks at both ends are dropped
RECURSIVE trimStart(_)
trimStart(t) ==
  IF t = <<>> THEN <<>>
  ELSE IF Head(t) = " " THEN trimStart(Tail(t)) ELSE t

RECURSIVE trimEnd(_)
trimEnd(t) ==
  IF t = <<>> THEN <<>>
  ELSE IF t[Len(t)] = " " THEN trimEnd(SubSeq(t, 1, Len(t) - 1)) ELSE t

trim(t) == trimEnd(trimStart(t))

\* setSendEnabled
setSendEnabled(ch) == [ch EXCEPT !.sendDisabled = (Len(trim(ch.input)) = 0)]

\* the synchronous part of a submit handler that sends whatever was typed
submitHandlerUnguarded(ch) ==
  LET text == trim(ch.input)
  IN [ch EXCEPT !.sendDisabled = TRUE, !.calls = Append(@, text)]

\* the synchronous part of one submit handler: up to the call of sendChat
submitHandler(ch) ==
  LET text == trim(ch.input)
  IN IF text = <<>> THEN ch
     ELSE [ch EXCEPT !.sendDisabled = TRUE, !.calls = Append(@, text)]

\* one submit event: every handler that initChat has bound runs in turn
RECURSIVE submitEvent(_, _)
submitEvent(ch, handlers) ==
  IF handlers = 0 THEN ch
  ELSE submitEvent(submitHandler(ch), handlers - 1)

\* one keydown of Enter: every keydown handler calls form.requestSubmit()
RECURSIVE enterKeydown(_, _)
enterKeydown(ch, handlers) ==
  IF handlers = 0 THEN ch
  ELSE enterKeydown(submitEvent(ch, ch.submitHandlers), handlers - 1)

\* initChat without the fetch: the poller is replaced; setSendEnabled is one
\* function, so the input listener is bound once however often it is added,
\* while the submit and keydown handlers are new closures on every call
initChat(ch) ==
  LET id == ch.timers + 1
  IN setSendEnabled(
       [ch EXCEPT !.intervals = (@ \ {ch.chatPoller}) \cup {id},
                  !.chatPoller = id,
                  !.timers = id,
                  !.inputListeners = 1,
                  !.submitHandlers = @ + 1,
                  !.keydownHandlers = @ + 1,
                  !.loaded = @ + 1])

\* the answers of GET /chat/messages/ and POST /chat/send/
ChatFetch == Resp("chat", "ok", srv.messages, 0)

\* the responses to the sendChat calls that an event has added, and the chat
\* log after them: a message is stored unless the log is full
RECURSIVE sendAll(_, _, _)
sendAll(bag, n, texts) ==
  IF texts = <<>> THEN [net |-> bag, messages |-> n]
  ELSE IF n < MaxMessages
    THEN sendAll(bag (+) SetToBag({Resp("chat_send", "ok", Head(texts), 0)}),
                 n + 1, Tail(texts))
    ELSE sendAll(bag (+) SetToBag({Resp("chat_send", "error", Head(texts), 0)}),
                 n, Tail(texts))

InitChatPage ==
  /\ srv = [messages |-> 0]
  /\ net = EmptyBag
  /\ c = InitClient
  /\ fails = 0
  /\ last = "init"
  /\ rendered = NoState
  /\ sent = [q |-> 0, n |-> 0, clicked |-> FALSE]
  /\ gs = InitGs
  /\ duelView = InitDuelView
  /\ playersView = InitPlayersView
  /\ lobby = InitLobby
  /\ chat \in {[InitChat EXCEPT !.sendDisabled = d] : d \in BOOLEAN}
  /\ dice = InitDice
  /\ cd = InitCd
  /\ act = InitAct
  /\ hand = InitHand
  /\ shop = InitShop

\* what the chat's handlers leave alone
notChat == <<c, fails, rendered, sent, gs, duelView, playersView, lobby, dice, cd, act, hand, shop>>

\* DOMContentLoaded, board init and then card-duel init: each calls initChat
ChatPageInit ==
  /\ chat.loaded < 2
  /\ chat' = initChat(chat)
  /\ net' = net (+) SetToBag({ChatFetch})
  /\ last' = IF chat.loaded = 0 THEN "BoardInit" ELSE "CardDuelInit"
  /\ UNCHANGED <<srv, notChat>>

\* one tick of every interval that runs fetchChat
ChatPollTick ==
  /\ chat.loaded = 2
  /\ CanSend
  /\ \E id \in chat.intervals : net' = Put(ChatFetch)
  /\ last' = "ChatPollTick"
  /\ UNCHANGED <<srv, chat, notChat>>

\* fetchChat from the response on
ChatRecv ==
  /\ \E r \in InFlight :
       /\ r.kind = "chat"
       /\ net' = Take(r)
       /\ chat' = [chat EXCEPT !.shown = r.snap]
  /\ last' = "ChatRecv"
  /\ UNCHANGED <<srv, notChat>>

\* the player edits the input: the input event runs setSendEnabled
ChatInput ==
  /\ chat.loaded = 2
  /\ \E v \in Texts :
       /\ v # chat.input
       /\ chat' = IF chat.inputListeners > 0
                    THEN setSendEnabled([chat EXCEPT !.input = v])
                    ELSE [chat EXCEPT !.input = v]
  /\ last' = "ChatInput"
  /\ UNCHANGED <<srv, net, notChat>>

\* someone else writes to the chat
ChatSrvOther ==
  /\ srv.messages < MaxMessages
  /\ srv' = [srv EXCEPT !.messages = @ + 1]
  /\ last' = "ChatSrvOther"
  /\ UNCHANGED <<net, chat, notChat>>

\* the submit event done: the requests leave, the server stores the messages
chatPosted(ch) ==
  LET out == sendAll(net, srv.messages, ch.calls)
  IN /\ chat' = ch
     /\ net' = out.net
     /\ srv' = [srv EXCEPT !.messages = out.messages]

\* a click on the enabled send button submits the form
ChatSubmitClick ==
  /\ chat.loaded = 2
  /\ ~chat.sendDisabled
  /\ CanSend
  /\ chatPosted(submitEvent([chat EXCEPT !.calls = <<>>], chat.submitHandlers))
  /\ last' = "ChatSubmit"
  /\ UNCHANGED notChat

\* Enter in the input submits the form through requestSubmit
ChatEnter ==
  /\ chat.loaded = 2
  /\ CanSend
  /\ chatPosted(enterKeydown([chat EXCEPT !.calls = <<>>], chat.keydownHandlers))
  /\ last' = "ChatEnter"
  /\ UNCHANGED notChat

\* a submit handler after await sendChat: the input is cleared and the chat
\* fetched again, or the error is alerted
ChatRecvSend ==
  /\ \E r \in InFlight :
       /\ r.kind = "chat_send"
       /\ IF r.res = "ok"
            THEN /\ chat' = setSendEnabled([chat EXCEPT !.input = <<>>])
                 /\ net' = Take(r) (+) SetToBag({ChatFetch})
            ELSE /\ chat' = setSendEnabled(chat)
                 /\ net' = Take(r)
  /\ last' = "ChatRecvSend"
  /\ UNCHANGED <<srv, notChat>>

NextChat ==
  \/ ChatPageInit
  \/ ChatPollTick
  \/ ChatRecv
  \/ ChatInput
  \/ ChatSrvOther
  \/ ChatSubmitClick
  \/ ChatEnter
  \/ ChatRecvSend

SpecChat == InitChatPage /\ [][NextChat]_vars

\* C12: sendChat is never called with a text that is empty after trimming,
\* by the button or by Enter, and after every input event the send button is
\* disabled exactly when the trimmed input is empty.
C12_NoEmptyChatMessage ==
  /\ [](\A i \in 1..Len(chat.calls) : trim(chat.calls[i]) # <<>>)
  /\ [][last' = "ChatInput" =>
          chat'.sendDisabled = (trim(chat'.input) = <<>>)]_vars

\* Enter was pressed on an input of blanks only, after a message had been sent
C12_Witness ==
  /\ last = "ChatEnter"
  /\ chat.input # <<>>
  /\ trim(chat.input) = <<>>
  /\ chat.sendDisabled
  /\ chat.calls = <<>>
  /\ srv.messages > 0

\* C20: once initChat has been called more than once, exactly one chat poller
\* runs and one submission of the chat form calls sendChat exactly once.
C20_InitChatIdempotent ==
  chat.loaded > 1 =>
    /\ Cardinality(chat.intervals) = 1
    /\ (last = "ChatSubmit" => Len(chat.calls) = 1)

\* ------------------------------------------------------------------------
\* The faces of the dice (game_board.js, handleRollClick)
\* ------------------------------------------------------------------------
\* Math.random() yields k / RandomSteps for some k in 0 .. RandomSteps - 1
RandomSteps == 7

DieFaces == 6

\* a shuffle that scales the random number by one face too many
shuffleFaceSeven(k) == 1 + ((k * (DieFaces + 1)) \div RandomSteps)

\* 1 + Math.floor(Math.random() * 6)
shuffleFace(k) == 1 + ((k * DieFaces) \div RandomSteps)

\* result.dice of a roll response: the die value the server rolled, or nothing
\* when the response carries the snapshot only
NoDice == 0

RollResults == (1..DieFaces) \cup {NoDice}

\* handleRollClick on a response that is ok: Number(result.dice) is NaN when
\* the response has no dice, and then no face and no text is written
diceApplied(d, v) ==
  IF v = NoDice THEN [d EXCEPT !.alive = @ - 1]
  ELSE [d EXCEPT !.alive = @ - 1, !.boardRoll = v, !.orderRoll = v,
                 !.text = [kind |-> "rolled", n |-> v]]

InitDicePage ==
  /\ srv = [die |-> NoDice]
  /\ net = EmptyBag
  /\ c = InitClient
  /\ fails = 0
  /\ last = "init"
  /\ rendered = NoState
  /\ sent = [q |-> 0, n |-> 0, clicked |-> FALSE]
  /\ gs = InitGs
  /\ duelView = InitDuelView
  /\ playersView = InitPlayersView
  /\ lobby = InitLobby
  /\ chat = InitChat
  /\ dice = InitDice
  /\ cd = InitCd
  /\ act = InitAct
  /\ hand = InitHand
  /\ shop = InitShop

\* what the dice leave alone
notDice == <<c, rendered, sent, gs, duelView, playersView, lobby, chat, cd, act, hand, shop>>

\* handleRollClick up to the fetch: "Rolling...", a shuffle on each die; the
\* server rolls and answers, or rejects the roll
DiceRollClick ==
  /\ CanSend
  /\ dice' = [dice EXCEPT !.alive = @ + 1,
                          !.text = [kind |-> "rolling", n |-> 0]]
  /\ \/ /\ \E v \in RollResults :
             /\ net' = Put(Resp("roll", "ok", v, 0))
             /\ srv' = [die |-> v]
        /\ fails' = fails
     \/ /\ fails < MaxFail
        /\ net' = Put(Resp("roll", "detail", NoDice, 0))
        /\ fails' = fails + 1
        /\ srv' = srv
  /\ last' = "DiceRollClick"
  /\ UNCHANGED notDice

\* one tick of a running shuffle interval, on the board die or the order die
DiceShuffleTick ==
  /\ dice.alive > 0
  /\ \E k \in 0..(RandomSteps - 1) :
       \/ dice' = [dice EXCEPT !.boardRoll = shuffleFace(k)]
       \/ dice' = [dice EXCEPT !.orderRoll = shuffleFace(k)]
  /\ last' = "DiceShuffleTick"
  /\ UNCHANGED <<srv, net, fails, notDice>>

\* handleRollClick from the response on
DiceRecvRoll ==
  /\ \E r \in InFlight :
       /\ r.kind = "roll"
       /\ net' = Take(r)
       /\ dice' = IF r.res = "ok" THEN diceApplied(dice, r.snap)
                  ELSE [dice EXCEPT !.alive = @ - 1,
                                    !.text = [kind |-> "detail", n |-> 0]]
  /\ last' = "DiceRecvRoll"
  /\ UNCHANGED <<srv, fails, notDice>>

NextDice == DiceRollClick \/ DiceShuffleTick \/ DiceRecvRoll

SpecDice == InitDicePage /\ [][NextDice]_vars

C14_StoppedTimerNeverFires ==
  [][last' = "TimeoutFire" => c.ACTIVE_QUESTION_KEY # NullKey]_vars

\* ------------------------------------------------------------------------
\* The card-duel poller (game_board.js, fetchCardDuelState)
\* ------------------------------------------------------------------------
\* the pick data of a snapshot: absent, picks still to make, or all picks made
PickStates == {"none", "open", "done"}

CdSnapshot(s) ==
  [status |-> s.status, mode |-> "card_duel", has_winner |-> s.has_winner,
   pick |-> s.pick]

\* renderCardDuelPickUI: reading max_picks of a missing pick throws
renderCardDuelPickUI(v, s) ==
  IF s.pick = "none" THEN [threw |-> TRUE, cd |-> v]
  ELSE [threw |-> FALSE, cd |-> [v EXCEPT !.draftModal = (s.pick = "open")]]

\* fetchCardDuelState after the response has been parsed: the renderers run,
\* and only if none of them threw is the end of the game looked at
cdApply(v, s) ==
  LET r == renderCardDuelPickUI(v, s)
  IN IF r.threw THEN r.cd
     ELSE IF isFinished(s)
       THEN [r.cd EXCEPT !.interval = FALSE, !.finishModal = TRUE]
       ELSE r.cd

InitCdPage ==
  /\ srv \in {[status |-> "active", has_winner |-> FALSE, pick |-> p] :
                p \in PickStates}
  /\ net = SetToBag({Resp("cd", "ok", CdSnapshot(srv), 0)})
  /\ c = InitClient
  /\ fails = 0
  /\ last = "init"
  /\ rendered = NoState
  /\ sent = [q |-> 0, n |-> 0, clicked |-> FALSE]
  /\ gs = InitGs
  /\ duelView = InitDuelView
  /\ playersView = InitPlayersView
  /\ lobby = InitLobby
  /\ chat = InitChat
  /\ dice = InitDice
  /\ cd = InitCd
  /\ act = InitAct
  /\ hand = InitHand
  /\ shop = InitShop

\* what the card-duel poller leaves alone
notCd == <<c, sent, gs, duelView, playersView, lobby, chat, dice, act, hand, shop>>

\* setInterval(() => fetchCardDuelState(gameId), 1500): the request part
CdPollTick ==
  /\ cd.interval
  /\ CanSend
  /\ \/ /\ net' = Put(Resp("cd", "ok", CdSnapshot(srv), 0))
        /\ fails' = fails
     \/ /\ fails < MaxFail
        /\ net' = Put(Resp("cd", "error", NoState, 0))
        /\ fails' = fails + 1
  /\ last' = "CdPollTick"
  /\ UNCHANGED <<srv, rendered, cd, notCd>>

\* fetchCardDuelState from the response on
CdRecv ==
  /\ \E r \in InFlight :
       /\ r.kind = "cd"
       /\ net' = Take(r)
       /\ IF r.res = "ok"
            THEN /\ cd' = cdApply(cd, r.snap)
                 /\ rendered' = r.snap
                 /\ last' = "CdRecv"
            ELSE /\ UNCHANGED <<cd, rendered>>
                 /\ last' = "CdRecvFailed"
  /\ UNCHANGED <<srv, fails, notCd>>

\* the game goes on: the picks are made, the pick data may be dropped from the
\* snapshot, a player wins
CdSrvStep ==
  /\ \/ /\ srv.pick = "open"
        /\ srv' = [srv EXCEPT !.pick = "done"]
     \/ /\ srv.pick = "done"
        /\ srv.status = "active"
        /\ srv' = [srv EXCEPT !.pick = "none"]
     \/ /\ srv.pick # "open"
        /\ ~srv.has_winner
        /\ srv' = [srv EXCEPT !.has_winner = TRUE]
     \/ /\ srv.pick # "open"
        /\ srv.status = "active"
        /\ srv' = [srv EXCEPT !.has_winner = TRUE, !.status = "finished"]
  /\ last' = "CdSrvStep"
  /\ UNCHANGED <<net, fails, rendered, cd, notCd>>

NextCd == CdPollTick \/ CdRecv \/ CdSrvStep

SpecCd == InitCdPage /\ [][NextCd]_vars

\* C15: every snapshot that fetchCardDuelState receives with status finished
\* or has_winner true, with or without pick data, leaves
\* window.__cardDuelInterval cleared and the finish modal open.
C15_CardDuelFinishHandled ==
  [][last' = "CdRecv" /\ isFinished(rendered') =>
       ~cd'.interval /\ cd'.finishModal]_vars

\* ------------------------------------------------------------------------
\* Rolls in flight
\* ------------------------------------------------------------------------
\* C16: while a roll or order_roll request of handleRollClick is in flight
\* (its shuffle is still running), the roll button and the order-roll button
\* are disabled and no second roll request is in flight, whatever poll
\* responses are rendered in between.
C16_AtMostOneRollInFlight ==
  c.shuffles > 0 =>
    /\ c.rollDisabled
    /\ c.orderRollDisabled
    /\ c.shuffles = 1

\* ------------------------------------------------------------------------
\* Late responses
\* ------------------------------------------------------------------------
\* a finished game stays finished on the server, so every snapshot of another
\* status is older than every finished one
FinishedIsFinal == [][srv.status = "finished" => srv'.status = "finished"]_vars

\* C17: the state shown never goes backwards. In particular, once a snapshot
\* of the finished game is stored in window.GAME_STATE, no later response
\* stores a snapshot taken before the game finished.
C17_ShownStateNeverGoesBack ==
  [][c.GAME_STATE.status = "finished" =>
       c'.GAME_STATE.status = "finished"]_vars

\* ------------------------------------------------------------------------
\* The activity log (game_board.js, updateActivityFromStateDiff)
\* ------------------------------------------------------------------------
MaxHp == 2

MaxCoins == 1

MaxRepolls == 2

MaxActPolls == 3

\* the players array of a snapshot: the player that is followed, anywhere on
\* the track with any HP and any coins
ActPayloads ==
  {[isNull |-> FALSE,
    players |-> <<[id |-> 1, position |-> pos, hp |-> hp, coins |-> co]>>] :
     pos \in 0..MaxPosition, hp \in 0..MaxHp, co \in 0..MaxCoins}

\* what lastPlayers keeps of a player
statsOf(p) == [position |-> p.position, hp |-> p.hp, coins |-> p.coins]

\* lastPlayers.clear() and one set(p.id, ...) per player, in array order
RECURSIVE recordPlayers(_, _)
recordPlayers(map, ps) ==
  IF ps = <<>> THEN map
  ELSE LET p == Head(ps)
           ids == DOMAIN map \cup {p.id}
       IN recordPlayers([i \in ids |-> IF i = p.id THEN statsOf(p) ELSE map[i]],
                        Tail(ps))

\* the dedup key of a diff
activityKey(p, old) ==
  <<p.id, old.position, p.position, p.hp - old.hp, p.coins - old.coins>>

\* the loop over nextState.players: a player that is known and has changed
\* gets a line unless the key of the diff has been seen before
RECURSIVE diffPlayers(_, _)
diffPlayers(a, ps) ==
  IF ps = <<>> THEN a
  ELSE LET p == Head(ps)
           known == p.id \in DOMAIN a.lastPlayers
           old == a.lastPlayers[p.id]
       IN IF ~known \/ statsOf(p) = old
            THEN diffPlayers(a, Tail(ps))
          ELSE IF activityKey(p, old) \in a.seenKeys
            THEN diffPlayers(a, Tail(ps))
          ELSE diffPlayers([a EXCEPT !.seenKeys = @ \cup {activityKey(p, old)},
                                     !.appended = Append(@, p.id),
                                     !.logLen = @ + 1],
                           Tail(ps))

\* a first run that leaves the baseline unrecorded
firstRunKeepsNothing(a, nextState) == a

\* the first run: the baseline is recorded and nothing is logged
firstRun(a, nextState) ==
  [a EXCEPT !.lastPlayers = recordPlayers(<<>>, nextState.players)]

\* updateActivityFromStateDiff(prevState, nextState)
updateActivityFromStateDiff(a, prevState, nextState) ==
  IF prevState.isNull THEN firstRun(a, nextState)
  ELSE LET a1 == diffPlayers(a, nextState.players)
       IN [a1 EXCEPT !.lastPlayers = recordPlayers(<<>>, nextState.players)]

InitActPage ==
  /\ srv = ServerAt("active", "board", {}, TRUE, "none")
  /\ net = EmptyBag
  /\ c = InitClient
  /\ fails = 0
  /\ last = "init"
  /\ rendered = NoState
  /\ sent = [q |-> 0, n |-> 0, clicked |-> FALSE]
  /\ gs = InitGs
  /\ duelView = InitDuelView
  /\ playersView = InitPlayersView
  /\ lobby = InitLobby
  /\ chat = InitChat
  /\ dice = InitDice
  /\ cd = InitCd
  /\ act = InitAct
  /\ hand = InitHand
  /\ shop = InitShop

\* fetchGameState, board branch, as far as the activity log goes: the diff
\* against window.GAME_STATE, which is then replaced by the snapshot
ActFetch(maxPolls) ==
  /\ act.polls < maxPolls
  /\ \E s \in ActPayloads :
       act' = [updateActivityFromStateDiff([act EXCEPT !.appended = <<>>],
                                           act.GAME_STATE, s)
                 EXCEPT !.GAME_STATE = s, !.polls = @ + 1]
  /\ UNCHANGED <<srv, net, c, fails, last, rendered, sent, gs, duelView,
                 playersView, lobby, chat, dice, cd, hand, shop>>

NextAct == ActFetch(MaxActPolls)

SpecAct == InitActPage /\ [][NextAct]_vars

NextRepoll == ActFetch(MaxRepolls)

SpecRepoll == InitActPage /\ [][NextRepoll]_vars

\* the players of snapshot s that are known to the client and whose position,
\* HP or coins differ from what was recorded at the previous poll
ChangedPlayers(a, s) ==
  {i \in 1..Len(s.players) :
     /\ s.players[i].id \in DOMAIN a.lastPlayers
     /\ statsOf(s.players[i]) # a.lastPlayers[s.players[i].id]}

LinesFor(a, id) == Cardinality({k \in 1..Len(a.appended) : a.appended[k] = id})

\* C18: on every poll after the first, each known player whose position, HP or
\* coins differ from the values recorded at the previous poll gets exactly one
\* new activity line, however often the same change has happened before.
C18_EveryChangeLogged ==
  [][(act'.polls = act.polls + 1 /\ ~act.GAME_STATE.isNull) =>
       \A i \in ChangedPlayers(act, act'.GAME_STATE) :
         LinesFor(act', act'.GAME_STATE.players[i].id) = 1]_vars

MaxCards == 2

Cards == 1..MaxCards

\* the snapshot as the hand reads it: the cards in hand, and whether it
\* carries pick data
HandSnapshot(s) == [hand |-> s.hand, pick |-> s.pick]

HandPayloads == {[hand |-> h, pick |-> p] : h \in SUBSET Cards, p \in {"none", "done"}}

\* renderCardDuelUI, renderHand: the hand is replaced, the processing flag of
\* the wrapper is not touched
renderHand(h, s) == [h EXCEPT !.shown = s.hand]

\* a handler whose flag is left set when it ends
finishPlayKeepsFlag(h) == h

\* the finally block of the card click handler
finishPlay(h) == [h EXCEPT !.processing = FALSE]

InitHandPage ==
  /\ srv \in {[hand |-> Cards, pick |-> p] : p \in {"none", "done"}}
  /\ net = EmptyBag
  /\ c = InitClient
  /\ fails = 0
  /\ last = "init"
  /\ rendered = NoState
  /\ sent = [q |-> 0, n |-> 0, clicked |-> FALSE]
  /\ gs = InitGs
  /\ duelView = InitDuelView
  /\ playersView = InitPlayersView
  /\ lobby = InitLobby
  /\ chat = InitChat
  /\ dice = InitDice
  /\ cd = InitCd
  /\ act = InitAct
  /\ hand = InitHand
  /\ shop = InitShop

\* what the hand's handlers leave alone
notHand == <<c, fails, rendered, sent, gs, duelView, playersView, lobby, chat,
             dice, cd, act, shop>>

\* fetchCardDuelState run by the poller: renderCardDuelUI renders the hand of
\* whatever snapshot arrives, a recent one or a late one
HandPoll ==
  /\ \E s \in HandPayloads : hand' = renderHand(hand, s)
  /\ last' = "HandPoll"
  /\ UNCHANGED <<srv, net, notHand>>

\* click on a card of the hand: ignored while the flag is set, else the flag
\* is set and playCard posts; the server plays the card if it is in the hand
CardClick ==
  /\ \E code \in hand.shown :
       IF hand.processing
         THEN /\ last' = "CardClickIgnored"
              /\ UNCHANGED <<srv, net, hand>>
         ELSE /\ hand' = [hand EXCEPT !.processing = TRUE]
              /\ last' = "CardClick"
              /\ \/ /\ code \in srv.hand
                    /\ srv' = [srv EXCEPT !.hand = @ \ {code}]
                    /\ net' = Put(Resp("play", "ok", HandSnapshot(srv'), 0))
                 \/ /\ code \notin srv.hand
                    /\ net' = Put(Resp("play", "detail", NoState, 0))
                    /\ srv' = srv
                 \/ /\ net' = Put(Resp("play", "neterr", NoState, 0))
                    /\ srv' = srv
  /\ UNCHANGED notHand

\* the responses a resync started now can get
ResyncResponses ==
  {Resp("resync", "ok", HandSnapshot(srv), 0), Resp("resync", "neterr", NoState, 0)}

\* the handler after await playCard: the response is rendered and the finally
\* block runs; or playCard threw, or renderCardDuelPickUI threw on a snapshot
\* without pick data, and the catch block shows the message and awaits
\* fetchCardDuelState
RecvPlay ==
  /\ \E r \in InFlight :
       /\ r.kind = "play"
       /\ IF r.res = "ok" /\ r.snap.pick # "none"
            THEN /\ hand' = finishPlay(renderHand(hand, r.snap))
                 /\ net' = Take(r)
                 /\ last' = "RecvPlay"
            ELSE /\ hand' = [hand EXCEPT !.feedback = r.res]
                 /\ \E f \in ResyncResponses : net' = Take(r) (+) SetToBag({f})
                 /\ last' = "RecvPlayFailed"
  /\ UNCHANGED <<srv, notHand>>

\* the catch block after await fetchCardDuelState: whether it rendered the
\* hand, rejected on the network or threw while rendering, the finally block
\* runs
RecvResync ==
  /\ \E r \in InFlight :
       /\ r.kind = "resync"
       /\ net' = Take(r)
       /\ hand' = IF r.res = "ok" THEN finishPlay(renderHand(hand, r.snap))
                  ELSE finishPlay(hand)
  /\ last' = "RecvResync"
  /\ UNCHANGED <<srv, notHand>>

\* the duel goes on: a card is drawn, pick data comes and goes
HandSrvStep ==
  /\ \/ \E code \in Cards \ srv.hand : srv' = [srv EXCEPT !.hand = @ \cup {code}]
     \/ srv' = [srv EXCEPT !.pick = IF @ = "none" THEN "done" ELSE "none"]
  /\ last' = "HandSrvStep"
  /\ UNCHANGED <<net, hand, notHand>>

NextHand == HandPoll \/ CardClick \/ RecvPlay \/ RecvResync \/ HandSrvStep

SpecHand == InitHandPage /\ [][NextHand]_vars

\* the play-card requests and the resyncs of a failed one that are under way
PlaysUnderWay == {r \in InFlight : r.kind \in {"play", "resync"}}

\* C21: at most one play-card request is in flight; while one is processed the
\* flag is set and a click on a card, also of a re-rendered hand, sends
\* nothing; and every outcome of the request ends with the flag reset.
C21_OnePlayInFlight ==
  /\ [](/\ BagCardinality(net) <= 1
        /\ (PlaysUnderWay # {} <=> hand.processing))
  /\ [][/\ (hand.processing /\ last' \in {"CardClick", "CardClickIgnored"}
              => net' = net /\ last' = "CardClickIgnored")
        /\ (last' \in {"RecvPlay", "RecvResync"} => ~hand'.processing)]_vars

\* an earlier play failed with the server's message and the flag was reset: a
\* new play is in flight and a click on a card has just been ignored
C21_Witness ==
  /\ last = "CardClickIgnored"
  /\ hand.processing
  /\ hand.feedback = "detail"
  /\ \E r \in InFlight : r.kind = "play"

\* ------------------------------------------------------------------------
\* The board page of a game whose only special tiles are gun tiles
\* ------------------------------------------------------------------------
InitServerGun == {ServerAt("active", "board", {"gun"}, TRUE, "none")}

InitGun == InitPage(InitServerGun)

NextGun ==
  \/ PollTick
  \/ RecvState
  \/ SrvOther
  \/ RollClick
  \/ RecvRoll
  \/ GunAttackClick
  \/ RecvGunAttack

SpecGun == InitGun /\ [][NextGun]_vars

\* C22: once the handler of a target button has applied a 2xx response whose
\* game_state has no pending_gun, the gun modal is closed.
C22_AcceptedAttackClosesGunModal ==
  last = "RecvGunAttack" /\ ~rendered.pending_gun => ~c.gunModal

\* ------------------------------------------------------------------------
\* The shop modal (game_board.js: showShopModal, shopBuyCard, shopSellCard,
\* shopClose)
\* ------------------------------------------------------------------------
MaxItems == 1

Items == 1..MaxItems

\* the snapshot as the shop modal reads it
ShopSnapshot(s) ==
  [status |-> "active", pending_shop |-> s.pend, offers |-> IF s.pend THEN s.offers ELSE {},
   your_cards |-> s.cards]

\* the pending shop of the player whose page this is: every item on offer
ShopServers == {[pend |-> TRUE, offers |-> Items, cards |-> {}]}

\* what the shop endpoints do when they accept a request
SrvShop(s, kind, item) ==
  IF kind = "buy" THEN [s EXCEPT !.offers = @ \ {item}, !.cards = @ \cup {item}]
  ELSE IF kind = "sell" THEN [s EXCEPT !.cards = @ \ {item}]
  ELSE [s EXCEPT !.pend = FALSE]

ShopAccepted(s, kind, item) ==
  /\ s.pend
  /\ kind = "buy" => item \in s.offers
  /\ kind = "sell" => item \in s.cards

showShop(sh, s) ==
  [sh EXCEPT !.open = TRUE, !.feedback = "", !.offers = s.offers, !.sell = s.your_cards]

hideShop(sh) ==
  [sh EXCEPT !.open = FALSE, !.feedback = "", !.offers = {}, !.sell = {}]

\* applyGameStateUpdate, and the shop part of fetchGameState
shopApply(sh, s) ==
  LET s1 == [sh EXCEPT !.GAME_STATE = s]
  IN IF s.pending_shop THEN showShop(s1, s) ELSE hideShop(s1)

FailedText(kind) ==
  IF kind = "buy" THEN "Failed to buy."
  ELSE IF kind = "sell" THEN "Failed to sell."
  ELSE "Failed to close shop."

NetworkText(kind) ==
  IF kind = "buy" THEN "Network error while buying."
  ELSE IF kind = "sell" THEN "Network error while selling."
  ELSE "Network error while closing shop."

\* a handler that closes the modal when its request fails
shopFailedHides(sh, r) == hideShop(sh)

\* the !res.ok branch and the catch block of the three handlers
shopFailed(sh, r) ==
  [sh EXCEPT !.feedback = IF r.res = "detail" THEN "detail"
                          ELSE IF r.res = "nodetail" THEN FailedText(r.kind)
                          ELSE NetworkText(r.kind)]

\* the handlers after a 2xx response
shopSucceeded(sh, r) ==
  IF r.kind = "close" THEN hideShop(shopApply(sh, r.snap)) ELSE shopApply(sh, r.snap)

InitShopPage ==
  /\ srv \in ShopServers
  /\ net = EmptyBag
  /\ c = InitClient
  /\ fails = 0
  /\ last = "init"
  /\ rendered = NoState
  /\ sent = [q |-> 0, n |-> 0, clicked |-> FALSE]
  /\ gs = InitGs
  /\ duelView = InitDuelView
  /\ playersView = InitPlayersView
  /\ lobby = InitLobby
  /\ chat = InitChat
  /\ dice = InitDice
  /\ cd = InitCd
  /\ act = InitAct
  /\ hand = InitHand
  /\ shop = InitShop

\* what the shop's handlers leave alone
notShop == <<c, rendered, sent, gs, duelView, playersView, lobby, chat, dice,
             cd, act, hand>>

\* the poller: request part of fetchGameState
ShopPollTick ==
  /\ CanSend
  /\ net' = Put(Resp("state", "ok", ShopSnapshot(srv), 0))
  /\ last' = "ShopPollTick"
  /\ UNCHANGED <<srv, fails, shop, notShop>>

\* fetchGameState after the response arrived
ShopRecvState ==
  /\ \E r \in InFlight :
       /\ r.kind = "state"
       /\ net' = Take(r)
       /\ shop' = shopApply(shop, r.snap)
  /\ last' = "ShopRecvState"
  /\ UNCHANGED <<srv, fails, notShop>>

\* a shop request: accepted and answered 2xx with the new snapshot, rejected
\* with a detail, answered non-2xx without a JSON body, or lost on the network
\* before or after the server acted
ShopPost(kind, item) ==
  \/ /\ ShopAccepted(srv, kind, item)
     /\ srv' = SrvShop(srv, kind, item)
     /\ net' = Put(Resp(kind, "ok", ShopSnapshot(srv'), 0))
     /\ fails' = fails
  \/ /\ srv' = srv
     /\ net' = Put(Resp(kind, "detail", NoShopState, 0))
     /\ fails' = fails
  \/ /\ fails < MaxFail
     /\ fails' = fails + 1
     /\ \/ srv' = srv
        \/ ShopAccepted(srv, kind, item) /\ srv' = SrvShop(srv, kind, item)
     /\ \E res \in {"nodetail", "neterr"} :
          /\ res = "nodetail" => srv' = srv
          /\ net' = Put(Resp(kind, res, NoShopState, 0))

\* click on a Buy button: shopBuyCard up to its await
ShopBuyClick ==
  /\ shop.open
  /\ CanSend
  /\ \E item \in shop.offers : ShopPost("buy", item)
  /\ shop' = [shop EXCEPT !.feedback = ""]
  /\ last' = "ShopBuyClick"
  /\ UNCHANGED notShop

\* click on a Sell button: shopSellCard up to its await
ShopSellClick ==
  /\ shop.open
  /\ CanSend
  /\ \E item \in shop.sell : ShopPost("sell", item)
  /\ shop' = [shop EXCEPT !.feedback = ""]
  /\ last' = "ShopSellClick"
  /\ UNCHANGED notShop

\* click on #shopCloseBtn: shopClose up to its await
ShopCloseBtnClick ==
  /\ shop.open
  /\ CanSend
  /\ ShopPost("close", 0)
  /\ shop' = [shop EXCEPT !.feedback = ""]
  /\ last' = "ShopCloseBtnClick"
  /\ UNCHANGED notShop

\* shopBuyCard, shopSellCard, shopClose after the response arrived
ShopRecv ==
  /\ \E r \in InFlight :
       /\ r.kind \in {"buy", "sell", "close"}
       /\ net' = Take(r)
       /\ shop' = IF r.res = "ok" THEN shopSucceeded(shop, r) ELSE shopFailed(shop, r)
       /\ last' = IF r.res = "ok" THEN "ShopRecvOk"
                  ELSE IF r.res = "detail" THEN "ShopRecvDetail"
                  ELSE IF r.res = "nodetail" THEN "ShopRecvNoDetail"
                  ELSE "ShopRecvNetErr"
  /\ UNCHANGED <<srv, fails, notShop>>

NextShop ==
  \/ ShopPollTick
  \/ ShopRecvState
  \/ ShopBuyClick
  \/ ShopSellClick
  \/ ShopCloseBtnClick
  \/ ShopRecv

SpecShop == InitShopPage /\ [][NextShop]_vars

ShopKinds == {"buy", "sell", "close"}

\* C23: a shop request that comes back non-2xx or fails on the network leaves
\* window.GAME_STATE, the modal, its offers and its sell list as they were and
\* puts the server's detail or the fallback message of the action into the
\* feedback line; window.GAME_STATE changes only when a 2xx response is applied.
C23_FailedShopActionChangesNothing ==
  [][/\ (last' \in {"ShopRecvDetail", "ShopRecvNoDetail", "ShopRecvNetErr"}
           => /\ shop'.GAME_STATE = shop.GAME_STATE
              /\ shop'.open = shop.open
              /\ shop'.offers = shop.offers
              /\ shop'.sell = shop.sell
              /\ shop'.feedback \in
                   (IF last' = "ShopRecvDetail" THEN {"detail"}
                    ELSE IF last' = "ShopRecvNoDetail"
                      THEN {FailedText(k) : k \in ShopKinds}
                    ELSE {NetworkText(k) : k \in ShopKinds}))
     /\ (shop'.GAME_STATE # shop.GAME_STATE
           => last' \in {"ShopRecvOk", "ShopRecvState"})]_vars

\* a rejected request has just been handled: the modal is open with offers and
\* shows the server's message
C23_Witness ==
  /\ last = "ShopRecvDetail"
  /\ shop.open
  /\ shop.offers # {}
  /\ shop.feedback = "detail"
  /\ shop.GAME_STATE # NoShopState

====
